---- MODULE Spec2Model ----
(***************************************************************************)
(* A model of password_tool.py: the wordlist generation pipeline           *)
(* (case_variants, leet_variants, parse_years, build_bases,                *)
(* generate_wordlist).                                                     *)
(*                                                                         *)
(* A Python str is a sequence of code points (naturals); a Python set is a *)
(* set; a Python list is a sequence.  Each function of the source is a     *)
(* state machine over its own activation frame (a record holding its       *)
(* arguments, its locals and its position), with one specification per     *)
(* function: SpecLeet, SpecYears, SpecBases and Spec (generate_wordlist).  *)
(***************************************************************************)
EXTENDS Integers, Sequences, FiniteSets, TLC

VARIABLES leet, yrs, bb, gen

vars == <<leet, yrs, bb, gen>>

\* The frame of a function that is not running.
Idle == [pc |-> "idle"]

----------------------------------------------------------------------------
\* Characters and strings

\* Code points of the characters the inputs and LEET_MAP are written with.
Ord ==
  ("a" :> 97) @@ ("b" :> 98) @@ ("c" :> 99) @@ ("d" :> 100) @@ ("e" :> 101) @@ ("f" :> 102) @@
  ("k" :> 107) @@ ("r" :> 114) @@ ("v" :> 118) @@
  ("g" :> 103) @@ ("i" :> 105) @@ ("l" :> 108) @@ ("o" :> 111) @@ ("s" :> 115) @@
  ("t" :> 116) @@ ("x" :> 120) @@ ("A" :> 65) @@ ("B" :> 66) @@ ("C" :> 67) @@
  ("D" :> 68) @@ ("X" :> 88) @@
  ("0" :> 48) @@ ("1" :> 49) @@ ("2" :> 50) @@ ("3" :> 51) @@ ("4" :> 52) @@
  ("5" :> 53) @@ ("7" :> 55) @@ ("8" :> 56) @@ ("9" :> 57) @@
  ("!" :> 33) @@ ("$" :> 36) @@ ("@" :> 64) @@ ("_" :> 95) @@ ("-" :> 45) @@
  (" " :> 32) @@ ("," :> 44)

\* The str written with the characters cs (a tuple of one-character strings).
Str(cs) == [i \in 1..Len(cs) |-> Ord[cs[i]]]

\* Python's None, as an argument that may also be a str.
None == << -1 >>

\* Python's truth value of an optional str: None and "" are false.
Truthy(s) == s # None /\ s # <<>>

IsUpper(c) == c >= 65 /\ c <= 90
IsLower(c) == c >= 97 /\ c <= 122
IsAlpha(c) == IsUpper(c) \/ IsLower(c)
IsDigit(c) == c >= 48 /\ c <= 57
IsSpace(c) == c \in {32, 9, 10, 11, 12, 13}

\* str.lower() and str.upper(), one character.
LowerCh(c) == IF IsUpper(c) THEN c + 32 ELSE c
UpperCh(c) == IF IsLower(c) THEN c - 32 ELSE c

lower(s) == [i \in 1..Len(s) |-> LowerCh(s[i])]
upper(s) == [i \in 1..Len(s) |-> UpperCh(s[i])]

\* str.capitalize(): the first character upper-cased, the rest lower-cased.
capitalize(s) == [i \in 1..Len(s) |-> IF i = 1 THEN UpperCh(s[i]) ELSE LowerCh(s[i])]

\* str.title(): a letter that follows a non-letter is upper-cased, any other
\* letter lower-cased.
title(s) ==
  [i \in 1..Len(s) |->
     IF i = 1 \/ ~IsAlpha(s[i - 1]) THEN UpperCh(s[i]) ELSE LowerCh(s[i])]

\* Minimum of two integers (Python's min).
min(a, b) == IF a <= b THEN a ELSE b

----------------------------------------------------------------------------
\* LEET_MAP and case_variants

LEET_MAP ==
  (97  :> <<97, 52, 64>>) @@      \* a: a 4 @
  (101 :> <<101, 51>>) @@         \* e: e 3
  (105 :> <<105, 49, 33>>) @@     \* i: i 1 !
  (111 :> <<111, 48>>) @@         \* o: o 0
  (115 :> <<115, 53, 36>>) @@     \* s: s 5 $
  (116 :> <<116, 55>>) @@         \* t: t 7
  (103 :> <<103, 57>>) @@         \* g: g 9
  (98  :> <<98, 56>>) @@          \* b: b 8
  (108 :> <<108, 49>>)            \* l: l 1

case_variants(word) ==
  {word, lower(word), upper(word), capitalize(word), title(word)}

----------------------------------------------------------------------------
\* leet_variants

\* positions = [(i, ch) for i, ch in enumerate(word.lower()) if ch in LEET_MAP]
\* (positions are 1-based here).
IsLeetPosition(p) == p[2] \in DOMAIN LEET_MAP

positions(word) ==
  LET lw == lower(word)
  IN  SelectSeq([i \in 1..Len(word) |-> <<i, lw[i]>>], IsLeetPosition)

\* choices: for each position, LEET_MAP[ch].
choices(word) ==
  LET ps == positions(word) IN [j \in 1..Len(ps) |-> LEET_MAP[ps[j][2]]]

\* s = list(word); s[pos] = repl; "".join(s)
SetChar(word, pos, repl) == [word EXCEPT ![pos] = repl]

\* A faulty variant of BasicChoiceRange: every alternative after the first, not only
\* the second.
BasicChoiceRangeAll(ch) == 1..(Len(LEET_MAP[ch]) - 1)

\* The body of the non-aggressive loop for position j (1-based): the strings
\* it adds to produced.
BasicChoiceRange(ch) == 1..(min(Len(LEET_MAP[ch]), 2) - 1)

BasicBody(word, j) ==
  LET ps  == positions(word)
      pos == ps[j][1]
      ch  == ps[j][2]
  IN  {SetChar(word, pos, LEET_MAP[ch][choice_idx + 1]) :
         choice_idx \in BasicChoiceRange(ch)}

\* rngs = [range(min(len(c), 3)) for c in choices]: the size of each range.
rngs(word) ==
  LET cs == choices(word) IN [j \in 1..Len(cs) |-> min(Len(cs[j]), 3)]

RECURSIVE ProductSize(_, _)
ProductSize(r, j) == IF j > Len(r) THEN 1 ELSE r[j] * ProductSize(r, j + 1)

\* The number of masks itertools.product(*rngs) yields.
NumMasks(word) == ProductSize(rngs(word), 1)

\* The k-th mask (k = 0, 1, ...) of itertools.product(*rngs): the last
\* position varies fastest.
Mask(word, k) ==
  LET r == rngs(word)
  IN  [j \in 1..Len(r) |-> (k \div ProductSize(r, j + 1)) % r[j]]

\* Line 127: s[pos] = LEET_MAP[ch][choice_idx], whatever choice_idx is.
Substitute(s, pos, ch, choice_idx) == SetChar(s, pos, LEET_MAP[ch][choice_idx + 1])

\* The loop of lines 126-127 from the j-th position on.
RECURSIVE ApplyFrom(_, _, _, _)
ApplyFrom(s, ps, mask, j) ==
  IF j > Len(ps) \/ j > Len(mask) THEN s
  ELSE ApplyFrom(Substitute(s, ps[j][1], ps[j][2], mask[j]), ps, mask, j + 1)

\* apply_variant(mask): the string it adds to produced.
apply_variant(word, mask) == ApplyFrom(word, positions(word), mask, 1)

\* A faulty variant of CapReached: > for >=.
CapExceeded(produced, cap) == Cardinality(produced) > cap

\* if len(produced) >= cap: break
CapReached(produced, cap) == Cardinality(produced) >= cap

\* The non-aggressive loop from position j on.
RECURSIVE BasicLoop(_, _, _)
BasicLoop(word, j, produced) ==
  IF j > Len(positions(word)) THEN produced
  ELSE BasicLoop(word, j + 1, produced \cup BasicBody(word, j))

\* The aggressive loop from mask k on.
RECURSIVE AggressiveLoop(_, _, _, _)
AggressiveLoop(word, cap, k, produced) ==
  IF k >= NumMasks(word) THEN produced
  ELSE LET p == produced \cup {apply_variant(word, Mask(word, k))}
       IN  IF CapReached(p, cap) THEN p
           ELSE AggressiveLoop(word, cap, k + 1, p)

\* A faulty variant of InitialVariants: the set starts empty.
InitialVariantsEmpty(word) == {}

\* variants = {word}
InitialVariants(word) == {word}

\* leet_variants(word, aggressive, cap), as a function.
leet_variants(word, aggressive, cap) ==
  IF positions(word) = <<>> THEN InitialVariants(word)
  ELSE InitialVariants(word) \cup
         (IF ~aggressive THEN BasicLoop(word, 1, {})
          ELSE AggressiveLoop(word, cap, 0, {}))

\* --- leet_variants as a state machine over the frame leet ---

MaxWordLen == 3
MaxCap == 3
GenCap == 12
DefaultCap == 16

\* The characters words are drawn from: a (three alternatives), b (two),
\* their capitals, and x (not in LEET_MAP).
LeetAlphabet == {97, 98, 65, 66, 120}

Words(alphabet, n) == UNION {[1..m -> alphabet] : m \in 0..n}
Caps == (-1..MaxCap) \cup {GenCap, DefaultCap}

LeetInit ==
  /\ leet \in {[pc |-> "start", word |-> w, aggressive |-> a, cap |-> c,
                variants |-> {}, produced |-> {}, k |-> 0] :
                 w \in Words(LeetAlphabet, MaxWordLen), a \in BOOLEAN, c \in Caps}
  /\ yrs = Idle /\ bb = Idle /\ gen = Idle

\* Lines 111-123: variants = {word}; return it when there is no position.
LeetStart ==
  /\ leet.pc = "start"
  /\ leet' = [leet EXCEPT
       !.variants = InitialVariants(leet.word),
       !.pc = IF positions(leet.word) = <<>> THEN "done"
              ELSE IF ~leet.aggressive THEN "basic" ELSE "aggressive"]
  /\ UNCHANGED <<yrs, bb, gen>>

\* Lines 132-136: one iteration of the single-position loop.
LeetBasicStep ==
  /\ leet.pc = "basic"
  /\ leet.k < Len(positions(leet.word))
  /\ leet' = [leet EXCEPT
       !.produced = leet.produced \cup BasicBody(leet.word, leet.k + 1),
       !.k = leet.k + 1]
  /\ UNCHANGED <<yrs, bb, gen>>

\* Lines 140-143: one iteration of the loop over itertools.product.
LeetAggressiveStep ==
  /\ leet.pc = "aggressive"
  /\ leet.k < NumMasks(leet.word)
  /\ LET p == leet.produced \cup {apply_variant(leet.word, Mask(leet.word, leet.k))}
     IN  leet' = [leet EXCEPT
           !.produced = p,
           !.k = leet.k + 1,
           !.pc = IF CapReached(p, leet.cap) THEN "union" ELSE "aggressive"]
  /\ UNCHANGED <<yrs, bb, gen>>

\* Lines 145-146: variants |= produced; return variants.
LeetReturn ==
  /\ \/ leet.pc = "basic" /\ leet.k >= Len(positions(leet.word))
     \/ leet.pc = "aggressive" /\ leet.k >= NumMasks(leet.word)
     \/ leet.pc = "union"
  /\ leet' = [leet EXCEPT !.variants = leet.variants \cup leet.produced, !.pc = "done"]
  /\ UNCHANGED <<yrs, bb, gen>>

LeetNext == LeetStart \/ LeetBasicStep \/ LeetAggressiveStep \/ LeetReturn

SpecLeet == LeetInit /\ [][LeetNext]_vars

\* The state machine and the function leet_variants compute the same set.
LeetMachineAgrees ==
  leet.pc = "done" =>
    leet.variants = leet_variants(leet.word, leet.aggressive, leet.cap)

----------------------------------------------------------------------------
\* Claims about leet_variants (SpecLeet)

\* The positions of w whose character, compared case-insensitively, is a key
\* of the LeetMap.
MappablePositions(w) == {p \in 1..Len(w) : LowerCh(w[p]) \in DOMAIN LEET_MAP}

\* w with position p replaced by the second LeetMap alternative of its letter.
SecondAlternativeAt(w, p) == [w EXCEPT ![p] = LEET_MAP[LowerCh(w[p])][2]]

\* The positions where two strings of equal length differ.
DiffPositions(a, b) == {p \in 1..Len(a) : a[p] # b[p]}

\* C5: for every word w, both values of aggressive and every cap, the set
\* leet_variants returns contains w; when no character of w (compared
\* case-insensitively) is a key of the LeetMap, the set is exactly {w}.
C5_ContainsWord ==
  leet.pc = "done" =>
    /\ leet.word \in leet.variants
    /\ MappablePositions(leet.word) = {} => leet.variants = {leet.word}

\* C5 witness: an aggressive run cut short by cap 1 on "Ab", whose produced
\* set does not hold the word, has returned a set holding it.
C5_Witness ==
  /\ leet.pc = "done" /\ leet.aggressive /\ leet.cap = 1
  /\ leet.word = Str(<<"A", "b">>)
  /\ leet.word \notin leet.produced
  /\ leet.word \in leet.variants

\* C8: in non-aggressive mode the result is exactly w together with, for each
\* mappable position p, w with position p holding the second LeetMap
\* alternative; every variant differs from w in at most one position, and the
\* result has 1 + (number of mappable positions) members, whatever the cap.
C8_BasicExact ==
  leet.pc = "done" /\ ~leet.aggressive =>
    /\ leet.variants =
         {leet.word} \cup
         {SecondAlternativeAt(leet.word, p) : p \in MappablePositions(leet.word)}
    /\ \A v \in leet.variants :
         Len(v) = Len(leet.word) /\ Cardinality(DiffPositions(v, leet.word)) <= 1
    /\ Cardinality(leet.variants) = 1 + Cardinality(MappablePositions(leet.word))

\* C8 witness: the basic run on "aBx" has returned its three members.
C8_Witness ==
  /\ leet.pc = "done" /\ ~leet.aggressive
  /\ leet.word = Str(<<"a", "B", "x">>)
  /\ leet.variants = {Str(<<"a", "B", "x">>), Str(<<"4", "B", "x">>),
                      Str(<<"a", "8", "x">>)}

\* C9: in aggressive mode with cap >= 1 the enumeration stops as soon as the
\* produced set reaches cap members: the loop continues only below cap, the
\* produced set never has more than cap members, and the returned set has at
\* most cap + 1.
C9_AggressiveCap ==
  leet.pc # "idle" /\ leet.aggressive /\ leet.cap >= 1 =>
    /\ Cardinality(leet.produced) <= leet.cap
    /\ leet.pc = "aggressive" => Cardinality(leet.produced) < leet.cap
    /\ leet.pc = "done" => Cardinality(leet.variants) <= leet.cap + 1

\* C9 witness: cap 2 has cut the enumeration of "Aab" short after two of its
\* eighteen masks, and the returned set has cap + 1 members.
C9_Witness ==
  /\ leet.pc = "done" /\ leet.aggressive /\ leet.cap = 2
  /\ leet.word = Str(<<"A", "a", "b">>)
  /\ leet.k = 2 /\ leet.k < NumMasks(leet.word)
  /\ Cardinality(leet.produced) = 2
  /\ Cardinality(leet.variants) = 3

\* The number of substitution combinations over the first 3 alternatives of
\* each mappable position of w.
RECURSIVE Combinations(_, _)
Combinations(w, p) ==
  IF p > Len(w) THEN 1
  ELSE (IF p \in MappablePositions(w) THEN min(Len(LEET_MAP[LowerCh(w[p])]), 3) ELSE 1)
       * Combinations(w, p + 1)

\* C10: when the aggressive enumeration is not cut short by the cap (fewer
\* combinations than cap), the aggressive result contains every string of the
\* non-aggressive result, also for words with uppercase mappable letters.
C10_AggressiveContainsBasic ==
  leet.pc = "done" /\ leet.aggressive /\ Combinations(leet.word, 1) < leet.cap =>
    leet_variants(leet.word, FALSE, leet.cap) \subseteq leet.variants

----------------------------------------------------------------------------
\* parse_years

\* The index of the first character at or after i that is not whitespace
\* (Len(s) + 1 when there is none): what \s* consumes.
RECURSIVE SkipSpaces(_, _)
SkipSpaces(s, i) ==
  IF i <= Len(s) /\ IsSpace(s[i]) THEN SkipSpaces(s, i + 1) ELSE i

\* \d{4} at index i.
FourDigitsAt(s, i) == i + 3 <= Len(s) /\ \A p \in i..(i + 3) : IsDigit(s[p])

\* re.match(r"^\s*(\d{4})\s*-\s*(\d{4})\s*$", years): <<group 1, group 2>>,
\* or <<>> when the pattern does not match.
MatchRange(years) ==
  LET i1 == SkipSpaces(years, 1)
      i2 == SkipSpaces(years, i1 + 4)
      i3 == SkipSpaces(years, i2 + 1)
      i4 == SkipSpaces(years, i3 + 4)
  IN  IF /\ FourDigitsAt(years, i1)
         /\ i2 <= Len(years) /\ years[i2] = 45
         /\ FourDigitsAt(years, i3)
         /\ i4 = Len(years) + 1
      THEN <<SubSeq(years, i1, i1 + 3), SubSeq(years, i3, i3 + 3)>>
      ELSE <<>>

\* int(s) raises ValueError unless s is a non-empty run of digits.
IntRaises(s) == s = <<>> \/ \E p \in 1..Len(s) : ~IsDigit(s[p])

\* int(s) for a run of digits.
RECURSIVE int(_)
int(s) ==
  IF s = <<>> THEN 0
  ELSE 10 * int(SubSeq(s, 1, Len(s) - 1)) + (s[Len(s)] - 48)

\* str(n) for n >= 0.
RECURSIVE str(_)
str(n) == IF n < 10 THEN <<48 + n>> ELSE Append(str(n \div 10), 48 + (n % 10))

\* A faulty variant of RangeStop: range(start, end).
RangeStopExclusive(end) == end

\* range(start, end + 1): its stop.
RangeStop(end) == end + 1

\* str.strip()
RECURSIVE rstrip(_)
rstrip(s) ==
  IF s # <<>> /\ IsSpace(s[Len(s)]) THEN rstrip(SubSeq(s, 1, Len(s) - 1)) ELSE s

strip(s) == LET r == rstrip(s) IN SubSeq(r, SkipSpaces(r, 1), Len(r))

\* A character of the class [,\s].
IsSep(c) == c = 44 \/ IsSpace(c)

\* re.split(r"[,\s]+", s): the fields between the maximal separator runs,
\* the empty fields at either end included.
RECURSIVE SplitFrom(_, _, _)
SplitFrom(s, i, cur) ==
  IF i > Len(s) THEN <<cur>>
  ELSE IF IsSep(s[i])
       THEN IF i > 1 /\ IsSep(s[i - 1]) THEN SplitFrom(s, i + 1, cur)
            ELSE <<cur>> \o SplitFrom(s, i + 1, <<>>)
       ELSE SplitFrom(s, i + 1, Append(cur, s[i]))

split(s) == SplitFrom(s, 1, <<>>)

\* str.isdigit()
isdigit(s) == s # <<>> /\ \A p \in 1..Len(s) : IsDigit(s[p])

\* The else branch of the years parse: the tokens kept.
ListTokens(years) ==
  LET parts == split(strip(years))
  IN  {parts[p] : p \in {q \in 1..Len(parts) :
                           isdigit(parts[q]) /\ Len(parts[q]) \in {2, 4}}}

\* The length of the run of digits starting at i.
RECURSIVE DigitRunLen(_, _)
DigitRunLen(s, i) ==
  IF i <= Len(s) /\ IsDigit(s[i]) THEN 1 + DigitRunLen(s, i + 1) ELSE 0

\* re.findall(r"(\d{2,4})", dob): scanning from i, greedy, non-overlapping.
RECURSIVE FindDigits2to4(_, _)
FindDigits2to4(s, i) ==
  IF i > Len(s) THEN <<>>
  ELSE LET n == min(DigitRunLen(s, i), 4)
       IN  IF n >= 2 THEN <<SubSeq(s, i, i + n - 1)>> \o FindDigits2to4(s, i + n)
           ELSE FindDigits2to4(s, i + 1)

\* "".join(m)
RECURSIVE join(_)
join(m) == IF m = <<>> THEN <<>> ELSE Head(m) \o join(Tail(m))

\* The tokens the dob branch adds to out.
DobTokens(dob) ==
  LET m == FindDigits2to4(dob, 1)
      digits == join(m)
  IN  (IF Len(digits) >= 8 THEN {SubSeq(digits, 1, 8)} ELSE {})
      \cup {m[p] : p \in {q \in 1..Len(m) : Len(m[q]) \in {2, 4}}}

\* a < b for two str, as Python compares them: by code point at the first
\* difference, a proper prefix first.
RECURSIVE FirstDifference(_, _, _, _)
FirstDifference(a, b, lo, hi) ==
  \* the first index in lo..hi at which a and b differ, when there is one
  IF lo >= hi THEN lo
  ELSE LET mid == (lo + hi) \div 2
       IN  IF SubSeq(a, lo, mid) # SubSeq(b, lo, mid)
           THEN FirstDifference(a, b, lo, mid)
           ELSE FirstDifference(a, b, mid + 1, hi)

StrLess(a, b) ==
  LET n == min(Len(a), Len(b))
  IN  IF SubSeq(a, 1, n) = SubSeq(b, 1, n) THEN Len(a) < Len(b)
      ELSE LET first == FirstDifference(a, b, 1, n)
           IN  a[first] < b[first]

\* sorted(out) for a set of str.
RECURSIVE sorted(_)
sorted(S) ==
  IF S = {} THEN <<>>
  ELSE LET m == CHOOSE x \in S : \A z \in S \ {x} : StrLess(x, z)
       IN  <<m>> \o sorted(S \ {m})

\* --- parse_years as a state machine over the frame yrs ---

MaxSpan == 3

\* The 4-digit text of n, for writing range expressions.
Pad4(n) ==
  <<48 + (n \div 1000), 48 + ((n \div 100) % 10), 48 + ((n \div 10) % 10), 48 + (n % 10)>>

\* Years next to the places where the decimal text changes length, and a
\* present-day year.
YearBases == {8, 98, 998, 2018, 9996}
YearValues == UNION {b..(b + MaxSpan) : b \in YearBases}

\* START-END and " START - END " for the pairs at most MaxSpan apart, in
\* either order (START > END among them).
RangeExprs ==
  UNION {{Pad4(pr[1]) \o <<45>> \o Pad4(pr[2]),
          <<32>> \o Pad4(pr[1]) \o <<32, 45, 32>> \o Pad4(pr[2]) \o <<32>>} :
           pr \in {q \in YearValues \X YearValues :
                    q[2] - q[1] <= MaxSpan /\ q[1] - q[2] <= MaxSpan}}

\* Expressions the range pattern rejects, None and "".
OtherExprs ==
  {None, <<>>,
   Str(<<"2", "0", ",", "2", "1", ",", "2", "0", "2", "2", " ", "7">>),
   Str(<<"2", "0", "1", "-", "2", "0", "2", "0">>),
   Str(<<"2", "0", "1", "8", "-", "2", "0", "2", "0", "1">>),
   Str(<<"2", "0", "1", "8", "-", "2", "0", "x", "0">>),
   Str(<<" ", ",", "9", "9", " ">>)}

DobInputs ==
  {None, <<>>,
   Str(<<"2", "0", "0", "2", "-", "0", "8", "-", "0", "9">>),
   Str(<<"1", "2", "3", "4", "5">>)}

YearsInit ==
  /\ yrs \in {[pc |-> "start", years |-> ye, dob |-> d, out |-> {},
               y |-> 0, stop |-> 0, result |-> <<>>] :
                ye \in RangeExprs \cup OtherExprs, d \in DobInputs}
  /\ leet = Idle /\ bb = Idle /\ gen = Idle

\* Lines 155-159 and 162-165: the match, and the list branch when the pattern
\* does not match.
YearsStart ==
  /\ yrs.pc = "start"
  /\ yrs' =
       IF ~Truthy(yrs.years) THEN [yrs EXCEPT !.pc = "dob"]
       ELSE LET m == MatchRange(yrs.years)
            IN  IF m # <<>>
                THEN IF IntRaises(m[1]) \/ IntRaises(m[2])
                     THEN [yrs EXCEPT !.pc = "raised"]
                     ELSE [yrs EXCEPT !.y = int(m[1]),
                                      !.stop = RangeStop(int(m[2])),
                                      !.pc = "range"]
                ELSE [yrs EXCEPT !.out = yrs.out \cup ListTokens(yrs.years),
                                 !.pc = "dob"]
  /\ UNCHANGED <<leet, bb, gen>>

\* Lines 160-161: one iteration of for y in range(start, end + 1).
YearsRangeStep ==
  /\ yrs.pc = "range"
  /\ yrs.y < yrs.stop
  /\ yrs' = [yrs EXCEPT !.out = yrs.out \cup {str(yrs.y)}, !.y = yrs.y + 1]
  /\ UNCHANGED <<leet, bb, gen>>

\* The range is exhausted.
YearsRangeEnd ==
  /\ yrs.pc = "range"
  /\ yrs.y >= yrs.stop
  /\ yrs' = [yrs EXCEPT !.pc = "dob"]
  /\ UNCHANGED <<leet, bb, gen>>

\* Lines 166-176: the dob branch and return sorted(out).
YearsDobReturn ==
  /\ yrs.pc = "dob"
  /\ LET o == IF Truthy(yrs.dob) THEN yrs.out \cup DobTokens(yrs.dob) ELSE yrs.out
     IN  yrs' = [yrs EXCEPT !.out = o, !.result = sorted(o), !.pc = "done"]
  /\ UNCHANGED <<leet, bb, gen>>

YearsNext == YearsStart \/ YearsRangeStep \/ YearsRangeEnd \/ YearsDobReturn

SpecYears == YearsInit /\ [][YearsNext]_vars

----------------------------------------------------------------------------
\* Claims about parse_years (SpecYears)

\* s is whitespace from index a to index b.
SpacesIn(s, a, b) == \A p \in a..b : IsSpace(s[p])

\* s has four digits at i and four at j, with a single "-" at m between them
\* and nothing but whitespace elsewhere.
StrictRangeAt(s, i, m, j) ==
  /\ i + 3 < m /\ m < j /\ j + 3 <= Len(s)
  /\ SpacesIn(s, 1, i - 1)
  /\ \A p \in i..(i + 3) : IsDigit(s[p])
  /\ SpacesIn(s, i + 4, m - 1)
  /\ s[m] = 45
  /\ SpacesIn(s, m + 1, j - 1)
  /\ \A p \in j..(j + 3) : IsDigit(s[p])
  /\ SpacesIn(s, j + 4, Len(s))

\* The number a run of digits denotes.
RECURSIVE DecimalValue(_)
DecimalValue(s) ==
  IF s = <<>> THEN 0
  ELSE (s[1] - 48) * (10 ^ (Len(s) - 1)) + DecimalValue(Tail(s))

\* s is the decimal string of a natural: digits, no leading zero but "0".
IsDecimalString(s) ==
  /\ Len(s) >= 1
  /\ \A p \in 1..Len(s) : IsDigit(s[p])
  /\ Len(s) > 1 => s[1] # 48

\* a sorts before b lexicographically.
LexBefore(a, b) ==
  \E k \in 1..(min(Len(a), Len(b)) + 1) :
    /\ \A p \in 1..(k - 1) : a[p] = b[p]
    /\ \/ k > Len(a) /\ k <= Len(b)
       \/ k <= Len(a) /\ k <= Len(b) /\ a[k] < b[k]

\* C6: when the years expression matches the strict 4-digit START-END pattern
\* and no date of birth is given, parse_years does not raise and returns
\* exactly the decimal strings of the integers START..END (nothing when
\* START > END), without duplicates, sorted lexicographically as strings.
C6_RangeYears ==
  \A i, m, j \in 1..Len(yrs.years) :
    yrs.pc # "idle" /\ yrs.years # None /\ yrs.dob = None
    /\ StrictRangeAt(yrs.years, i, m, j) =>
      LET START == DecimalValue(SubSeq(yrs.years, i, i + 3))
          END   == DecimalValue(SubSeq(yrs.years, j, j + 3))
          r     == yrs.result
      IN  /\ yrs.pc # "raised"
          /\ yrs.pc = "done" =>
               /\ \A p \in 1..Len(r) :
                    IsDecimalString(r[p]) /\ DecimalValue(r[p]) \in START..END
               /\ \A n \in START..END : \E p \in 1..Len(r) : DecimalValue(r[p]) = n
               /\ \A p, q \in 1..Len(r) : p < q => LexBefore(r[p], r[q])

\* C6 witness: " 0008 - 0011 " without a date of birth has returned
\* 10, 11, 8, 9 in that order.
C6_Witness ==
  /\ yrs.pc = "done" /\ yrs.dob = None
  /\ yrs.years = Str(<<" ", "0", "0", "0", "8", " ", "-", " ", "0", "0", "1", "1", " ">>)
  /\ yrs.result = <<Str(<<"1", "0">>), Str(<<"1", "1">>), Str(<<"8">>), Str(<<"9">>)>>

----------------------------------------------------------------------------
\* build_bases

\* kws = [k for k in keywords if k]
IsNonEmpty(k) == k # <<>>
NonEmptyKeywords(keywords) == SelectSeq(keywords, IsNonEmpty)

\* The index pairs of for i in range(len(kws)): for j in range(i + 1, len(kws)).
IndexPairs(kws) == {q \in (1..Len(kws)) \X (1..Len(kws)) : q[1] < q[2]}

\* A faulty variant of JoinBoth: one order only.
JoinOneOrder(a, sep, b) == {a \o sep \o b}

\* Lines 189-190: what one index pair adds for one separator.
JoinBoth(a, sep, b) == {a \o sep \o b, b \o sep \o a}

\* Lines 187-190 for one separator.
JoinPairs(kws, sep) ==
  UNION {JoinBoth(kws[q[1]], sep, kws[q[2]]) : q \in IndexPairs(kws)}

\* re.findall(r"\d+", dob): the runs of digits, scanning from i.
RECURSIVE FindDigitRuns(_, _)
FindDigitRuns(s, i) ==
  IF i > Len(s) THEN <<>>
  ELSE LET n == DigitRunLen(s, i)
       IN  IF n >= 1 THEN <<SubSeq(s, i, i + n - 1)>> \o FindDigitRuns(s, i + n)
           ELSE FindDigitRuns(s, i + 1)

\* Lines 192-194: the tokens a dob adds to bases.
DobBases(dob) ==
  IF Truthy(dob)
  THEN LET tokens == FindDigitRuns(dob, 1) IN {tokens[p] : p \in 1..Len(tokens)}
  ELSE {}

\* The loop of lines 182-184 from keyword i on.
RECURSIVE SinglesLoop(_, _, _)
SinglesLoop(kws, i, bases) ==
  IF i > Len(kws) THEN bases
  ELSE SinglesLoop(kws, i + 1, bases \cup case_variants(kws[i]))

\* The loop of lines 186-190 from separator i on.
RECURSIVE JoinsLoop(_, _, _, _)
JoinsLoop(kws, separators, i, bases) ==
  IF i > Len(separators) THEN bases
  ELSE JoinsLoop(kws, separators, i + 1, bases \cup JoinPairs(kws, separators[i]))

\* build_bases(keywords, dob, separators), as a function.
build_bases(keywords, dob, separators) ==
  LET kws == NonEmptyKeywords(keywords)
  IN  JoinsLoop(kws, separators, 1, SinglesLoop(kws, 1, {})) \cup DobBases(dob)

\* --- build_bases as a state machine over the frame bb ---

MaxKeywords == 2
MaxSeparators == 1

\* Sequences of at most n members of S.
Lists(S, n) == UNION {[1..m -> S] : m \in 0..n}

\* "", ab, a1b (title() and capitalize() differ), Cd.
KeywordPool ==
  {<<>>, Str(<<"a", "b">>), Str(<<"a", "1", "b">>), Str(<<"C", "d">>)}

SeparatorPool == {Str(<<"_">>), Str(<<"-">>)}

BasesDobInputs ==
  {None, <<>>,
   Str(<<"2", "0", "0", "2", "-", "0", "8", "-", "0", "9">>),
   Str(<<"x", "1", "2", "-", "3">>)}

BasesInit ==
  /\ bb \in {[pc |-> "start", keywords |-> kw, dob |-> d, separators |-> sp,
              kws |-> <<>>, bases |-> {}, i |-> 0] :
               kw \in Lists(KeywordPool, MaxKeywords), d \in BasesDobInputs,
               sp \in Lists(SeparatorPool, MaxSeparators)}
  /\ leet = Idle /\ yrs = Idle /\ gen = Idle

\* Lines 179-180.
BasesStart ==
  /\ bb.pc = "start"
  /\ bb' = [bb EXCEPT !.kws = NonEmptyKeywords(bb.keywords), !.pc = "singles"]
  /\ UNCHANGED <<leet, yrs, gen>>

\* Lines 182-184: one keyword.
BasesSingleStep ==
  /\ bb.pc = "singles"
  /\ bb.i < Len(bb.kws)
  /\ bb' = [bb EXCEPT !.bases = bb.bases \cup case_variants(bb.kws[bb.i + 1]),
                      !.i = bb.i + 1]
  /\ UNCHANGED <<leet, yrs, gen>>

\* The keywords are exhausted.
BasesSinglesEnd ==
  /\ bb.pc = "singles"
  /\ bb.i >= Len(bb.kws)
  /\ bb' = [bb EXCEPT !.pc = "joins", !.i = 0]
  /\ UNCHANGED <<leet, yrs, gen>>

\* Lines 186-190: one separator.
BasesJoinStep ==
  /\ bb.pc = "joins"
  /\ bb.i < Len(bb.separators)
  /\ bb' = [bb EXCEPT
       !.bases = bb.bases \cup JoinPairs(bb.kws, bb.separators[bb.i + 1]),
       !.i = bb.i + 1]
  /\ UNCHANGED <<leet, yrs, gen>>

\* Lines 192-195: the dob tokens, and return bases.
BasesDobReturn ==
  /\ bb.pc = "joins"
  /\ bb.i >= Len(bb.separators)
  /\ bb' = [bb EXCEPT !.bases = bb.bases \cup DobBases(bb.dob), !.pc = "done"]
  /\ UNCHANGED <<leet, yrs, gen>>

BasesNext ==
  BasesStart \/ BasesSingleStep \/ BasesSinglesEnd \/ BasesJoinStep \/ BasesDobReturn

SpecBases == BasesInit /\ [][BasesNext]_vars

\* The state machine and the function build_bases compute the same set.
BasesMachineAgrees ==
  bb.pc = "done" => bb.bases = build_bases(bb.keywords, bb.dob, bb.separators)

----------------------------------------------------------------------------
\* Claims about build_bases (SpecBases)

\* The positions of the non-empty keywords.
KeywordPositions(keywords) == {p \in 1..Len(keywords) : keywords[p] # <<>>}

\* The maximal digit runs of s: digits from a to b, no digit before a or
\* after b.
MaximalDigitRuns(s) ==
  {SubSeq(s, q[1], q[2]) :
     q \in {r \in (1..Len(s)) \X (1..Len(s)) :
              /\ r[1] <= r[2]
              /\ \A p \in r[1]..r[2] : IsDigit(s[p])
              /\ r[1] = 1 \/ ~IsDigit(s[r[1] - 1])
              /\ r[2] = Len(s) \/ ~IsDigit(s[r[2] + 1])}}

\* C7: build_bases returns exactly the union of (1) the case variants of
\* every non-empty keyword, (2) for every two distinct entries i, j of the
\* list of non-empty keywords and every separator, keyword_i + separator +
\* keyword_j in both orders, and (3) every maximal digit run of the date of
\* birth when one is supplied; every member has length at least 1.
C7_BasesExact ==
  bb.pc = "done" =>
    /\ bb.bases =
         UNION {case_variants(bb.keywords[p]) : p \in KeywordPositions(bb.keywords)}
         \cup {bb.keywords[q[1]] \o bb.separators[q[3]] \o bb.keywords[q[2]] :
                 q \in {r \in KeywordPositions(bb.keywords)
                               \X KeywordPositions(bb.keywords)
                               \X (1..Len(bb.separators)) : r[1] # r[2]}}
         \cup (IF bb.dob # None THEN MaximalDigitRuns(bb.dob) ELSE {})
    /\ \A b \in bb.bases : Len(b) >= 1

\* C7 witness: ["ab", "Cd"] with "x12-3" and "_" has returned the case
\* variants, the two joins and the digit runs.
C7_Witness ==
  /\ bb.pc = "done"
  /\ bb.keywords = <<Str(<<"a", "b">>), Str(<<"C", "d">>)>>
  /\ bb.dob = Str(<<"x", "1", "2", "-", "3">>)
  /\ bb.separators = <<Str(<<"_">>)>>
  /\ bb.bases =
       {Str(<<"a", "b">>), Str(<<"A", "B">>), Str(<<"A", "b">>),
        Str(<<"C", "d">>), Str(<<"c", "d">>), Str(<<"C", "D">>),
        Str(<<"a", "b", "_", "C", "d">>), Str(<<"C", "d", "_", "a", "b">>),
        Str(<<"1", "2">>), Str(<<"3">>)}

----------------------------------------------------------------------------
\* generate_wordlist

MinLen == 4
MaxLen == 64
DefaultMax == 20000

\* aggressive = (leet_mode.lower() == "aggressive")
IsAggressive(leet_mode) ==
  lower(leet_mode) = Str(<<"a", "g", "g", "r", "e", "s", "s", "i", "v", "e">>)

\* Line 213: what one base adds to expanded (cap=12).
ExpandBody(expanded, b, aggressive) ==
  expanded \cup leet_variants(b, aggressive, GenCap)

\* Line 214: if len(expanded) > max_candidates: break
BudgetExceeded(expanded, max_candidates) == Cardinality(expanded) > max_candidates

\* The loop of lines 212-215 over the bases in the order of the sequence
\* order, from its i-th member on.
RECURSIVE ExpandLoop(_, _, _, _, _)
ExpandLoop(order, i, expanded, aggressive, max_candidates) ==
  IF i > Len(order) THEN expanded
  ELSE LET e == ExpandBody(expanded, order[i], aggressive)
       IN  IF BudgetExceeded(e, max_candidates) THEN e
           ELSE ExpandLoop(order, i + 1, e, aggressive, max_candidates)

\* A faulty variant of InWindow: the lower bound is missing.
InWindowNoLowerBound(candidate) == Len(candidate) <= MaxLen

\* maybe_add: if 4 <= len(candidate) <= 64
InWindow(candidate) == MinLen <= Len(candidate) /\ Len(candidate) <= MaxLen

\* maybe_add applied to every member of S.
maybe_add(out, S) == out \cup {c \in S : InWindow(c)}

\* The members of a list, as a set.
Range(seq) == {seq[p] : p \in 1..Len(seq)}

\* A faulty variant of YearForms: y + b is missing.
YearFormsOneOrder(expanded, years) ==
  {b \o y : b \in expanded, y \in Range(years)}

\* Lines 227-230: b + y and y + b.
YearForms(expanded, years) ==
  UNION {{b \o y, y \o b} : b \in expanded, y \in Range(years)}

\* Lines 233-235: b + s.
SuffixForms(expanded, suffixes) ==
  {b \o x : b \in expanded, x \in Range(suffixes)}

\* Lines 238-241: b + y + s.
YearSuffixForms(expanded, years, suffixes) ==
  {b \o y \o x : b \in expanded, y \in Range(years), x \in Range(suffixes)}

\* The sort key (len(x), x): a before b.
KeyLess(a, b) == Len(a) < Len(b) \/ (Len(a) = Len(b) /\ StrLess(a, b))

\* sorted(out, key=lambda x: (len(x), x)): each member at the place given
\* by the number of members whose key is smaller.
sorted_by_key(S) ==
  LET ranked == {<<Cardinality({z \in S : KeyLess(z, x)}), x>> : x \in S}
  IN  [p \in 1..Cardinality(S) |-> (CHOOSE r \in ranked : r[1] = p - 1)[2]]

\* A faulty variant of SlicePrefix: one entry too many.
SlicePrefixOneMore(seq, n) ==
  IF n >= 0 THEN SubSeq(seq, 1, min(n + 1, Len(seq)))
  ELSE SubSeq(seq, 1, IF Len(seq) + n >= 0 THEN Len(seq) + n ELSE 0)

\* seq[:n], a negative n counting from the end.
SlicePrefix(seq, n) ==
  IF n >= 0 THEN SubSeq(seq, 1, min(n, Len(seq)))
  ELSE SubSeq(seq, 1, IF Len(seq) + n >= 0 THEN Len(seq) + n ELSE 0)

\* Lines 222-245 as a function of the expanded set: the list returned.
Assemble(expanded, years, suffixes, max_candidates) ==
  LET o1 == maybe_add({}, expanded)
      o2 == maybe_add(o1, YearForms(expanded, years))
      o3 == maybe_add(o2, SuffixForms(expanded, suffixes))
      o4 == maybe_add(o3, YearSuffixForms(expanded, years, suffixes))
  IN  SlicePrefix(sorted_by_key(o4), max_candidates)

\* --- generate_wordlist as a state machine over the frame gen ---

MaxGenYears == 1
MaxGenSuffixes == 1
MaxCandidates == 2

\* A keyword of 63 characters: with a one-character suffix it fills the
\* window, with a year it leaves it.
LongKeyword == [p \in 1..63 |-> 120]

\* No keyword, ab (its case variants have leet variants), the long keyword,
\* and a pair (joined when there is a separator).
GenKeywordInputs ==
  {<<>>, <<Str(<<"a", "b">>)>>, <<LongKeyword>>, <<Str(<<"a", "b">>), Str(<<"x">>)>>}
GenDobInputs == {None, Str(<<"1", "9", "9", "0">>)}
GenYearPool == {Str(<<"2", "4">>), Str(<<"2", "0", "2", "4">>)}
GenSuffixPool == {Str(<<"!">>)}
GenSeparatorInputs == {<<>>, <<Str(<<"_">>)>>}
GenLeetModes ==
  {Str(<<"b", "a", "s", "i", "c">>),
   Str(<<"A", "g", "g", "r", "e", "s", "s", "i", "v", "e">>)}
GenMaxInputs == (-1..MaxCandidates) \cup {DefaultMax}

GenInit ==
  /\ gen \in {[pc |-> "start", keywords |-> kw, dob |-> d, years |-> ys,
               leet_mode |-> lm, suffixes |-> sf, separators |-> sp,
               max_candidates |-> mc, bases |-> {}, todo |-> {},
               aggressive |-> FALSE, expanded |-> {}, broke |-> FALSE,
               out |-> {}, candidates |-> <<>>] :
                kw \in GenKeywordInputs, d \in GenDobInputs,
                ys \in Lists(GenYearPool, MaxGenYears), lm \in GenLeetModes,
                sf \in Lists(GenSuffixPool, MaxGenSuffixes),
                sp \in GenSeparatorInputs, mc \in GenMaxInputs}
  /\ leet = Idle /\ yrs = Idle /\ bb = Idle

\* Lines 206-211.
GenStart ==
  /\ gen.pc = "start"
  /\ LET b == build_bases(gen.keywords, gen.dob, gen.separators)
     IN  gen' = [gen EXCEPT !.bases = b, !.todo = b,
                            !.aggressive = IsAggressive(gen.leet_mode),
                            !.pc = "expand"]
  /\ UNCHANGED <<leet, yrs, bb>>

\* Lines 212-215: one iteration of for b in bases.  The order in which a set
\* of str is iterated is not fixed (it changes from one run to the next with
\* the hash seed): any base not yet visited may come next.
GenExpandStep ==
  /\ gen.pc = "expand"
  /\ \E b \in gen.todo :
       LET e == ExpandBody(gen.expanded, b, gen.aggressive)
       IN  gen' = [gen EXCEPT
             !.expanded = e,
             !.todo = gen.todo \ {b},
             !.broke = BudgetExceeded(e, gen.max_candidates),
             !.pc = IF BudgetExceeded(e, gen.max_candidates) THEN "plain"
                    ELSE "expand"]
  /\ UNCHANGED <<leet, yrs, bb>>

\* The bases are exhausted.
GenExpandEnd ==
  /\ gen.pc = "expand"
  /\ gen.todo = {}
  /\ gen' = [gen EXCEPT !.pc = "plain"]
  /\ UNCHANGED <<leet, yrs, bb>>

\* Lines 223-224.
GenPlain ==
  /\ gen.pc = "plain"
  /\ gen' = [gen EXCEPT !.out = maybe_add(gen.out, gen.expanded), !.pc = "years"]
  /\ UNCHANGED <<leet, yrs, bb>>

\* Lines 227-230.
GenYears ==
  /\ gen.pc = "years"
  /\ gen' = [gen EXCEPT
       !.out = maybe_add(gen.out, YearForms(gen.expanded, gen.years)),
       !.pc = "suffixes"]
  /\ UNCHANGED <<leet, yrs, bb>>

\* Lines 233-235.
GenSuffixes ==
  /\ gen.pc = "suffixes"
  /\ gen' = [gen EXCEPT
       !.out = maybe_add(gen.out, SuffixForms(gen.expanded, gen.suffixes)),
       !.pc = "yearsuffix"]
  /\ UNCHANGED <<leet, yrs, bb>>

\* Lines 238-241.
GenYearSuffix ==
  /\ gen.pc = "yearsuffix"
  /\ gen' = [gen EXCEPT
       !.out = maybe_add(gen.out,
                         YearSuffixForms(gen.expanded, gen.years, gen.suffixes)),
       !.pc = "sort"]
  /\ UNCHANGED <<leet, yrs, bb>>

\* Lines 244-245.
GenReturn ==
  /\ gen.pc = "sort"
  /\ gen' = [gen EXCEPT
       !.candidates = SlicePrefix(sorted_by_key(gen.out), gen.max_candidates),
       !.pc = "done"]
  /\ UNCHANGED <<leet, yrs, bb>>

Init == GenInit

Next ==
  \/ GenStart \/ GenExpandStep \/ GenExpandEnd \/ GenPlain
  \/ GenYears \/ GenSuffixes \/ GenYearSuffix \/ GenReturn

Spec == Init /\ [][Next]_vars

\* What generate_wordlist returns when the loop of lines 212-215 visits the
\* bases in sorted order: one of the orders a run may take.
SortedOrderRun ==
  Assemble(ExpandLoop(sorted(gen.bases), 1, {}, gen.aggressive, gen.max_candidates),
           gen.years, gen.suffixes, gen.max_candidates)

\* A run whose loop was not left by the break returns what the functions
\* compute.
GenMachineAgrees ==
  gen.pc = "done" /\ ~gen.broke => gen.candidates = SortedOrderRun

----------------------------------------------------------------------------
\* Claims about generate_wordlist (Spec)

\* C1: every string of the returned list has length between 4 and 64
\* inclusive, and no string occurs in the list more than once.
C1_WindowAndUnique ==
  gen.pc = "done" =>
    /\ \A p \in 1..Len(gen.candidates) :
         Len(gen.candidates[p]) >= 4 /\ Len(gen.candidates[p]) <= 64
    /\ \A p, q \in 1..Len(gen.candidates) :
         p # q => gen.candidates[p] # gen.candidates[q]

\* C1 witness: the long keyword with year 24 and suffix "!" has returned a
\* list that holds the 64-character keyword + "!" and not the 65-character
\* keyword + "24".
C1_Witness ==
  /\ gen.pc = "done"
  /\ gen.keywords = <<LongKeyword>>
  /\ gen.years = <<Str(<<"2", "4">>)>>
  /\ gen.suffixes = <<Str(<<"!">>)>>
  /\ gen.max_candidates = DefaultMax
  /\ LongKeyword \o Str(<<"!">>) \in Range(gen.candidates)
  /\ LongKeyword \o Str(<<"2", "4">>) \in YearForms(gen.expanded, gen.years)
  /\ LongKeyword \o Str(<<"2", "4">>) \notin Range(gen.candidates)

\* a comes before b in the order (length ascending, then lexicographic).
LengthLexBefore(a, b) == Len(a) < Len(b) \/ (Len(a) = Len(b) /\ LexBefore(a, b))

\* The returned list is sorted by (length, then lexicographic).
SortedByLengthLex(seq) ==
  \A p, q \in 1..Len(seq) : p < q => LengthLexBefore(seq[p], seq[q])

\* C2 as stated: for every integer max_candidates the returned list is
\* sorted by (length, lexicographic) and has at most max_candidates entries.
C2_SortedAndBoundedForEveryInteger ==
  gen.pc = "done" =>
    /\ SortedByLengthLex(gen.candidates)
    /\ Len(gen.candidates) <= gen.max_candidates

\* C2 amended: the returned list is sorted by (length, lexicographic) for
\* every integer max_candidates, and has at most max_candidates entries for
\* every max_candidates >= 0.
C2_SortedAndBounded ==
  gen.pc = "done" =>
    /\ SortedByLengthLex(gen.candidates)
    /\ gen.max_candidates >= 0 => Len(gen.candidates) <= gen.max_candidates

\* C2 witness: max_candidates 2 has cut a larger emission set down to two
\* entries of different lengths.
C2_Witness ==
  /\ gen.pc = "done"
  /\ gen.max_candidates = 2
  /\ Cardinality(gen.out) > 2
  /\ Len(gen.candidates) = 2
  /\ Len(gen.candidates[1]) < Len(gen.candidates[2])

\* C3: two runs on identical arguments return the same list whatever order
\* the bases are iterated in, the runs that leave the loop early included:
\* every run returns what the run in sorted order returns.
C3_Deterministic ==
  gen.pc = "done" => gen.candidates = SortedOrderRun

\* The leet-expanded bases: every leet variant of every base.
ExpandedBases ==
  UNION {leet_variants(b, IsAggressive(gen.leet_mode), GenCap) :
           b \in build_bases(gen.keywords, gen.dob, gen.separators)}

\* The strings of the forms c, c+y, y+c, c+s and c+y+s.
AllForms ==
  LET C == ExpandedBases
      Y == Range(gen.years)
      S == Range(gen.suffixes)
  IN  C \cup {c \o y : c \in C, y \in Y} \cup {y \o c : c \in C, y \in Y}
        \cup {c \o x : c \in C, x \in S}
        \cup {c \o y \o x : c \in C, y \in Y, x \in S}

\* C4: when no truncation applies (the emission set has at most
\* max_candidates members and the loop was not left early), the returned list
\* holds exactly the strings of length 4..64 of the forms c, c+y, y+c, c+s
\* and c+y+s.
C4_ExactForms ==
  gen.pc = "done" /\ ~gen.broke /\ Cardinality(gen.out) <= gen.max_candidates =>
    Range(gen.candidates) = {f \in AllForms : Len(f) >= 4 /\ Len(f) <= 64}

\* C4 witness: ["ab", "x"] joined by "_", with year 2024 and suffix "!", has
\* returned ab2024, 2024ab, ab_x!, 4b_x2024! and not the 3-character ab!.
C4_Witness ==
  /\ gen.pc = "done" /\ ~gen.broke
  /\ gen.keywords = <<Str(<<"a", "b">>), Str(<<"x">>)>>
  /\ gen.separators = <<Str(<<"_">>)>>
  /\ gen.years = <<Str(<<"2", "0", "2", "4">>)>>
  /\ gen.suffixes = <<Str(<<"!">>)>>
  /\ {Str(<<"a", "b", "2", "0", "2", "4">>), Str(<<"2", "0", "2", "4", "a", "b">>),
      Str(<<"a", "b", "_", "x", "!">>),
      Str(<<"4", "b", "_", "x", "2", "0", "2", "4", "!">>)}
       \subseteq Range(gen.candidates)
  /\ Str(<<"a", "b", "!">>) \notin Range(gen.candidates)

====
